---- MODULE Spec2Model ----
(***************************************************************************)
(* The cascading text-replacement pipeline of pdf_processor.py:            *)
(* process_pdf and the seven strategies it chains (replace_text_clean,     *)
(* _minimal, _direct, _overlay, _precise, replace_text_in_pdf and          *)
(* process_pdf_simple).  Spec is process_pdf called on one file; DirSpec   *)
(* is the program run from the command line: main, process_directory and,  *)
(* for each file found, process_pdf.                                       *)
(*                                                                         *)
(* Text is a sequence of word tokens ("KYC Report" is <<"KYC","Report">>). *)
(* A page is the sequence of the items of its content stream; a document   *)
(* is a sequence of pages; a file is a document on disk.                   *)
(***************************************************************************)
EXTENDS Integers, Sequences, FiniteSets, TLC

\* ------------------------------------------------------------------ bounds

\* Largest number of pages of an input document.
MaxPages == 2

\* Number of process_pdf runs in a behaviour: the second run takes the
\* first run's output as its input.
MaxRuns == 2

\* Largest number of *.pdf files in the directory main is run on.
MaxFiles == 2

\* ------------------------------------------------------------------- text

\* The literals process_pdf passes to every strategy.
OLD_TEXT == <<"KYC", "Report">>
NEW_TEXT == <<"PD", "Report">>

\* Python's `sub in s` on strings.
Contains(s, sub) ==
  \E i \in 1..(Len(s) - Len(sub) + 1) : SubSeq(s, i, i + Len(sub) - 1) = sub

\* Python's s.replace(old, new): every non-overlapping occurrence, scanning
\* from the left.
RECURSIVE Replace(_, _, _)
Replace(s, old, new) ==
  IF Len(s) < Len(old) THEN s
  ELSE IF SubSeq(s, 1, Len(old)) = old
       THEN new \o Replace(SubSeq(s, Len(old) + 1, Len(s)), old, new)
       ELSE <<Head(s)>> \o Replace(Tail(s), old, new)

\* Truth value of s.strip(): some token is neither white space nor a gap
\* left by a redaction.
NonBlank(s) == \E i \in 1..Len(s) : s[i] \notin {" ", "_"}

\* hex_to_rgb: the digits after lstrip('#'), two by two, base 16, over 255.
HexDigits(hex_color) == SelectSeq(hex_color, LAMBDA c : c # "#")
HexVal(c) ==
  CASE c = "0" -> 0 [] c = "6" -> 6 [] c = "c" -> 12 [] c = "f" -> 15
    [] OTHER -> 0
hex_to_rgb(hex_color) ==
  LET d == HexDigits(hex_color)
  IN  [k |-> "tuple",
       v |-> [i \in 1..3 |-> 16 * HexVal(d[2 * i - 1]) + HexVal(d[2 * i])]]
ACCENT == <<"#", "0", "0", "6", "6", "c", "c">>

\* --------------------------------------------------------------- geometry

\* Width of one token's glyph run in a span's bounding box.
GlyphW == 40

Rect(x0, y0, x1, y1) == <<x0, y0, x1, y1>>
Expand(b, m) == Rect(b[1] - m, b[2] - m, b[3] + m, b[4] + m)
Intersects(a, b) == a[1] < b[3] /\ b[1] < a[3] /\ a[2] < b[4] /\ b[2] < a[4]

\* ------------------------------------------------------------------ items

\* A colour is an sRGB integer as get_text("dict") gives it (k = "int") or
\* a tuple of components, kept here in 255ths (k = "tuple").
BLACK == [k |-> "int", v |-> <<0>>]
RED   == [k |-> "int", v |-> <<255>>]
BLACK3 == [k |-> "tuple", v |-> <<0, 0, 0>>]
WHITE == [k |-> "tuple", v |-> <<255, 255, 255>>]
BLUE  == [k |-> "tuple", v |-> <<0, 0, 255>>]

\* One span of page.get_text("dict"): text, font, size, bbox, color.
Span(text, x0, y0, font, size, color) ==
  [kind |-> "span", text |-> text, font |-> font, size |-> size,
   bbox |-> Rect(x0, y0, x0 + GlyphW * Len(text), y0 + size), color |-> color]

\* A filled rectangle or an image: content with no "lines".
Shape(kind, bbox, color) ==
  [kind |-> kind, text |-> <<>>, font |-> "", size |-> 0,
   bbox |-> bbox, color |-> color]

EmptyPage == [items |-> <<>>]

\* The box of token k of a span.
Cell(sp, k) ==
  Rect(sp.bbox[1] + GlyphW * (k - 1), sp.bbox[2],
       sp.bbox[1] + GlyphW * k, sp.bbox[4])

\* blocks -> lines -> spans of get_text("dict"), in document order; a block
\* without "lines" (an image, a drawing) is skipped.
Spans(page) == SelectSeq(page.items, LAMBDA it : it.kind = "span")

\* The first span whose text contains needle, or NoSpan.
NoSpan == Shape("none", Rect(0, 0, 0, 0), BLACK)
find_first_span(page, needle) ==
  LET sp == Spans(page)
      hits == {i \in 1..Len(sp) : Contains(sp[i].text, needle)}
  IN  IF hits = {} THEN NoSpan
      ELSE sp[CHOOSE i \in hits : \A j \in hits : i <= j]

\* ------------------------------------------------------- page operations

\* Text as the page gives it back after page.insert_text(point, ...): the
\* point is the left end of the baseline.
InsertedSpan(point, text, font, size, color) ==
  [kind |-> "span", text |-> text, font |-> font, size |-> size,
   bbox |-> Rect(point[1], point[2] - size,
                 point[1] + GlyphW * Len(text), point[2]),
   color |-> color]

\* page.draw_rect(rect, color, fill): more content on top, nothing removed.
DrawRect(page, rect) ==
  [page EXCEPT !.items = Append(@, Shape("rect", rect, WHITE))]

\* page.add_redact_annot(rect, fill) then page.apply_redactions(): the text
\* under the rectangle is removed from the page (a gap is left where a span
\* is cut), then the fill is painted.
Redact(page, rect) ==
  LET cut(it) ==
        IF it.kind # "span" THEN it
        ELSE [it EXCEPT !.text =
                [k \in 1..Len(it.text) |->
                   IF Intersects(Cell(it, k), rect) THEN "_" ELSE it.text[k]]]
      items2 == [i \in 1..Len(page.items) |-> cut(page.items[i])]
      kept == SelectSeq(items2, LAMBDA it :
                it.kind # "span" \/ \E k \in 1..Len(it.text) : it.text[k] # "_")
  IN  [page EXCEPT !.items = Append(kept, Shape("rect", rect, WHITE))]

\* Start positions of the occurrences of needle in text, left to right,
\* not overlapping.
RECURSIVE Occurrences(_, _, _)
Occurrences(text, needle, from) ==
  IF from + Len(needle) - 1 > Len(text) THEN <<>>
  ELSE IF SubSeq(text, from, from + Len(needle) - 1) = needle
       THEN <<from>> \o Occurrences(text, needle, from + Len(needle))
       ELSE Occurrences(text, needle, from + 1)

\* page.search_for(needle): one rectangle per occurrence, in page order.
\* (Occurrences inside one span; the rectangle is the box of the matched
\* tokens, tighter than the span's.)
RECURSIVE SearchSpans(_, _)
SearchSpans(sp, needle) ==
  IF sp = <<>> THEN <<>>
  ELSE LET h == Head(sp)
           occ == Occurrences(h.text, needle, 1)
       IN  [i \in 1..Len(occ) |->
              Rect(h.bbox[1] + GlyphW * (occ[i] - 1), h.bbox[2],
                   h.bbox[1] + GlyphW * (occ[i] - 1 + Len(needle)), h.bbox[4])]
           \o SearchSpans(Tail(sp), needle)
search_for(page, needle) == SearchSpans(Spans(page), needle)

\* PyPDF2's page.extract_text(): the text of the page in content order, a
\* line break where the baseline changes.
RECURSIVE JoinSpans(_)
JoinSpans(sp) ==
  IF sp = <<>> THEN <<>>
  ELSE IF Len(sp) = 1 THEN sp[1].text
  ELSE sp[1].text
       \o (IF sp[1].bbox[4] = sp[2].bbox[4] THEN <<>> ELSE <<"\n">>)
       \o JoinSpans(Tail(sp))
extract_text(page) == JoinSpans(Spans(page))

\* The watermark page drawn by reportlab: "PD Report" in Helvetica-Bold 24,
\* blue, at (50, height - 100) of a letter page; page.merge_page adds its
\* content to the page.
LetterHeight == 792
Watermark ==
  [kind |-> "span", text |-> <<"PD", "Report">>, font |-> "Helvetica-Bold",
   size |-> 24,
   bbox |-> Rect(50, LetterHeight - 100, 50 + GlyphW * 2, LetterHeight - 100 + 24),
   color |-> BLUE]
merge_page(page) == [page EXCEPT !.items = Append(@, Watermark)]

\* ------------------------------------------------------- document edits

\* One call on the open document, as the strategies make them.
Op(op, pg, rect, point, text, font, size, color) ==
  [op |-> op, pg |-> pg, rect |-> rect, point |-> point, text |-> text,
   font |-> font, size |-> size, color |-> color]
NoRect == Rect(0, 0, 0, 0)
NoPoint == <<0, 0>>
DrawRectOp(rect) == Op("draw_rect", "first", rect, NoPoint, <<>>, "", 0, WHITE)
RedactOp(rect) == Op("redact", "first", rect, NoPoint, <<>>, "", 0, WHITE)
InsertTextOp(pg, point, text, font, size, color) ==
  Op("insert_text", pg, NoRect, point, text, font, size, color)
NewPageOp == Op("new_page", "new", NoRect, NoPoint, <<>>, "", 0, WHITE)
DeletePageOp == Op("delete_page", "first", NoRect, NoPoint, <<>>, "", 0, WHITE)
InsertPageOp == Op("insert_page", "first", NoRect, NoPoint, <<>>, "", 0, WHITE)

\* The effect of one call on the document d. `page` is doc[0] as read when
\* the strategy started; new_page is the page doc.new_page() returned, which
\* PyMuPDF appends after the last page.  doc.insert_page(0, new_page) makes
\* one more page at index 0 (its second parameter is text to write on it, not
\* a page to move).
ApplyOp(d, o) ==
  CASE o.op = "draw_rect" -> [d EXCEPT ![1] = DrawRect(@, o.rect)]
    [] o.op = "redact" -> [d EXCEPT ![1] = Redact(@, o.rect)]
    [] o.op = "insert_text" ->
         LET i == IF o.pg = "first" THEN 1 ELSE Len(d)
         IN  [d EXCEPT ![i].items =
                Append(@, InsertedSpan(o.point, o.text, o.font, o.size, o.color))]
    [] o.op = "new_page" -> Append(d, EmptyPage)
    [] o.op = "delete_page" -> Tail(d)
    [] o.op = "insert_page" -> <<EmptyPage>> \o d
    [] OTHER -> d

\* clean: paint over the span's box grown by 3, write the new text at
\* (x0, y1 - 5).
CleanPlan(t, new_text) ==
  << DrawRectOp(Expand(t.bbox, 3)),
     InsertTextOp("first", <<t.bbox[1], t.bbox[4] - 5>>, new_text,
                  t.font, t.size, hex_to_rgb(ACCENT)) >>

\* minimal: redact the span's box grown by 2, write at (x0, y1 - 2).
MinimalPlan(t, new_text) ==
  << RedactOp(Expand(t.bbox, 2)),
     InsertTextOp("first", <<t.bbox[1], t.bbox[4] - 2>>, new_text,
                  t.font, t.size, hex_to_rgb(ACCENT)) >>

\* overlay: redact the span's box, write at (x0, y1 - 2).
OverlayPlan(t, new_text) ==
  << RedactOp(t.bbox),
     InsertTextOp("first", <<t.bbox[1], t.bbox[4] - 2>>, new_text,
                  t.font, t.size, hex_to_rgb(ACCENT)) >>

\* The colour direct and precise give a span that does not hold the new text.
NormalizeColor(color) ==
  IF color.k \in {"int", "float"}
  THEN (IF color.v[1] > 0 THEN BLACK3 ELSE BLACK3)
  ELSE IF color.k # "tuple" \/ Len(color.v) \notin {1, 3, 4} THEN BLACK3
  ELSE color

\* CopySpans that writes only the spans holding the old text: the other
\* spans of the page are not copied.
RECURSIVE CopySpans_TargetOnly(_, _, _)
CopySpans_TargetOnly(sp, old_text, new_text) ==
  IF sp = <<>> THEN <<>>
  ELSE LET span == Head(sp)
       IN  (IF Contains(span.text, old_text)
            THEN << InsertTextOp("new", <<span.bbox[1], span.bbox[4] - 2>>,
                                 Replace(span.text, old_text, new_text),
                                 span.font, span.size, hex_to_rgb(ACCENT)) >>
            ELSE <<>>)
           \o CopySpans_TargetOnly(Tail(sp), old_text, new_text)

\* direct and precise: the copy loop over every span of the page.
RECURSIVE CopySpans(_, _, _)
CopySpans(sp, old_text, new_text) ==
  IF sp = <<>> THEN <<>>
  ELSE LET span == Head(sp)
           span_text == IF Contains(span.text, old_text)
                        THEN Replace(span.text, old_text, new_text)
                        ELSE span.text
           color == IF Contains(span_text, new_text) THEN hex_to_rgb(ACCENT)
                    ELSE NormalizeColor(span.color)
       IN  (IF NonBlank(span_text)
            THEN << InsertTextOp("new", <<span.bbox[1], span.bbox[4] - 2>>,
                                 span_text, span.font, span.size, color) >>
            ELSE <<>>)
           \o CopySpans(Tail(sp), old_text, new_text)

\* direct: new_page, the copy loop, delete_page(0), insert_page(0, new_page).
DirectPlan(page, old_text, new_text) ==
  <<NewPageOp>> \o CopySpans(Spans(page), old_text, new_text)
    \o <<DeletePageOp, InsertPageOp>>

\* PrecisePlan that stops after the copy loop: the original page is not
\* deleted and no page is inserted.
PrecisePlan_CopyOnly(page, old_text, new_text) ==
  <<NewPageOp>> \o CopySpans(Spans(page), old_text, new_text)

\* precise: the same statements as direct.
PrecisePlan(page, old_text, new_text) ==
  <<NewPageOp>> \o CopySpans(Spans(page), old_text, new_text)
    \o <<DeletePageOp, InsertPageOp>>

\* StandardLoop leaving the loop after the first rectangle.
StandardLoop_FirstOnly(rects, t, new_text) ==
  IF rects = <<>> THEN <<>>
  ELSE << RedactOp(Head(rects)),
          InsertTextOp("first", <<Head(rects)[1], Head(rects)[4] - 2>>,
                       new_text, t.font, t.size, hex_to_rgb(ACCENT)) >>

\* standard: for each rectangle of search_for, redact it and write the new
\* text at (x0, y1 - 2) in the first matching span's font and size.
RECURSIVE StandardLoop(_, _, _)
StandardLoop(rects, t, new_text) ==
  IF rects = <<>> THEN <<>>
  ELSE << RedactOp(Head(rects)),
          InsertTextOp("first", <<Head(rects)[1], Head(rects)[4] - 2>>,
                       new_text, t.font, t.size, hex_to_rgb(ACCENT)) >>
       \o StandardLoop(Tail(rects), t, new_text)
StandardPlan(page, t, old_text, new_text) ==
  StandardLoop(search_for(page, old_text), t, new_text)

\* The calls a strategy makes once it has found its target span t on page.
Plan(s, page, t, old_text, new_text) ==
  CASE s = "clean" -> CleanPlan(t, new_text)
    [] s = "minimal" -> MinimalPlan(t, new_text)
    [] s = "direct" -> DirectPlan(page, old_text, new_text)
    [] s = "overlay" -> OverlayPlan(t, new_text)
    [] s = "precise" -> PrecisePlan(page, old_text, new_text)
    [] s = "standard" -> StandardPlan(page, t, old_text, new_text)
    [] OTHER -> <<>>

\* The document after the first n calls of a plan.
RECURSIVE ApplyOps(_, _, _)
ApplyOps(d, plan, n) ==
  IF n = 0 THEN d ELSE ApplyOp(ApplyOps(d, plan, n - 1), plan[n])

\* SimplePages with add_page inside the `if page_num == 0` block: only the
\* first page reaches the writer.
SimplePages_FirstOnly(d) ==
  [i \in 1..1 |->
     IF Contains(extract_text(d[i]), <<"KYC", "Report">>)
     THEN merge_page(d[i]) ELSE d[i]]

\* SimplePages with the watermark merged whatever the page's text is.
SimplePages_Always(d) ==
  [i \in 1..Len(d) |-> IF i = 1 THEN merge_page(d[i]) ELSE d[i]]

\* process_pdf_simple's page loop: page 0 gets the watermark when its
\* extracted text contains "KYC Report"; every page goes to the writer.
SimplePages(d) ==
  [i \in 1..Len(d) |->
     IF i = 1 /\ Contains(extract_text(d[i]), <<"KYC", "Report">>)
     THEN merge_page(d[i]) ELSE d[i]]

\* ----------------------------------------------------------------- inputs

\* Page 0 of the input documents.
TitleOnly ==
  [items |-> << Span(<<"KYC", "Report">>, 50, 50, "Helvetica-Bold", 14, BLACK) >>]
Surrounded ==
  [items |-> << Shape("image", Rect(0, 0, 40, 15), WHITE),
                Span(<<"Bank">>, 50, 20, "Helvetica", 10, RED),
                Span(<<"2024", "KYC", "Report", "Conf">>, 50, 50,
                     "Helvetica-Bold", 14, BLACK) >>]
TwoSpans ==
  [items |-> << Span(<<"KYC", "Report">>, 50, 50, "Helvetica-Bold", 14, BLACK),
                Span(<<"see", "KYC", "Report">>, 50, 65, "ArialMT", 10, BLACK) >>]
NoTarget ==
  [items |-> << Span(<<"Invoice">>, 50, 50, "Helvetica-Bold", 14, BLACK) >>]
SplitTarget ==
  [items |-> << Span(<<"KYC">>, 50, 50, "Helvetica-Bold", 14, BLACK),
                Span(<<"Report">>, 95, 50, "Helvetica", 14, BLACK) >>]
TwiceInSpan ==
  [items |-> << Span(<<" ">>, 10, 50, "Helvetica", 14, BLACK),
                Span(<<"KYC", "Report", "KYC", "Report">>, 50, 50,
                     "Helvetica-Bold", 14, BLACK),
                Span(<<"note">>, 50, 80, "Helvetica", 10,
                     [k |-> "tuple", v |-> <<255, 0>>]) >>]
FirstPages ==
  {TitleOnly, Surrounded, TwoSpans, NoTarget, SplitTarget, TwiceInSpan}

\* Page i > 0 of an input document; it holds the old text too.
BodyPage(i) ==
  [items |-> << Span(<<"KYC", "Report">>, 50, 100 * i, "Helvetica", 10, BLACK) >>]

Inputs ==
  {<<p>> \o [i \in 1..(n - 1) |-> BodyPage(i)] : p \in FirstPages, n \in 1..MaxPages}

\* A path on disk: no file, a file being written, or a whole document.
NoFile == [exists |-> FALSE, complete |-> FALSE, doc |-> <<>>]
File(d, complete) == [exists |-> TRUE, complete |-> complete, doc |-> d]

\* ------------------------------------------------------------- process_pdf

\* The seven `if method == ...` of process_pdf, top to bottom.
IfChain ==
  <<"clean", "minimal", "direct", "overlay", "precise", "standard", "simple">>

\* argparse's choices for --method, and one name outside them.
Methods ==
  {"clean", "minimal", "direct", "overlay", "precise", "standard", "simple"}
FitzStrategies ==
  {"clean", "minimal", "direct", "overlay", "precise", "standard"}

\* FallTo with minimal's else branch naming precise: direct and overlay
\* are passed over.
FallTo_SkipDirect(m) ==
  CASE m = "clean" -> "minimal"
    [] m = "minimal" -> "precise"
    [] m = "direct" -> "overlay"
    [] m = "overlay" -> "precise"
    [] m = "precise" -> "standard"
    [] m = "standard" -> "simple"
    [] OTHER -> m

\* `method = '...'` in the else branch of a strategy that failed.
FallTo(m) ==
  CASE m = "clean" -> "minimal"
    [] m = "minimal" -> "direct"
    [] m = "direct" -> "overlay"
    [] m = "overlay" -> "precise"
    [] m = "precise" -> "standard"
    [] m = "standard" -> "simple"
    [] OTHER -> m

\* Caught with doc.close() and the return after the try block.
Caught_NotClose(step) == step # "close"

\* The statements of a strategy that its try block covers.
Caught(step) == TRUE

\* Load that opens what an earlier attempt left at output_path when there
\* is something there.
Load_FromOutput(out, file) == IF out.doc # <<>> THEN out.doc ELSE file

\* What fitz.open(input_path) / PdfReader(input_file) hands the strategy:
\* the content of the file at input_path, whatever is at output_path.
Load(out, file) == file

VARIABLES
  src,       \* the document at input_path
  dest,      \* the file at output_path
  run,       \* which process_pdf run this is
  start,     \* the method process_pdf was called with
  method,    \* process_pdf's local `method`
  ifIdx,     \* the `if` of process_pdf that is evaluated next
  pc,        \* where the run is
  cur,       \* the strategy that is running
  doc,       \* the document the running strategy holds
  target,    \* its target_span
  plan,      \* the calls it makes on the document
  opIdx,     \* the next call of the plan
  attempts,  \* the strategies called in this run, in order
  outcomes,  \* what each returned
  ret,       \* what process_pdf returned
  raised,    \* an exception left process_pdf
  writers,   \* the strategies that wrote to output_path in this run
  faulted,   \* some call raised in this run
  opened,    \* the running strategy holds an open fitz document
  unclosed,  \* a strategy returned and left its document open
  input_dir,   \* what is at main's input_dir path
  arg_method,  \* the method main hands to process_directory
  pdf_files,   \* process_directory's list of files
  idx,         \* the file of pdf_files the loop is at
  output_dir,  \* output_dir exists
  successful,  \* process_directory's counters
  failed,
  calls,       \* the files process_pdf was called with, in order
  results,     \* what each call returned
  summary,     \* "Processing complete: ..." was logged
  exit_code,   \* the status the program ended with
  mpc          \* where main is

dirVars == <<input_dir, arg_method, pdf_files, idx, output_dir, successful,
             failed, calls, results, summary, exit_code, mpc>>

vars == <<src, dest, run, start, method, ifIdx, pc, cur, doc, target, plan,
          opIdx, attempts, outcomes, ret, raised, writers, faulted, opened,
          unclosed, dirVars>>

\* A directory holding the files, a path that is a file, a path with
\* nothing at it.
Directory(files) == [kind |-> "dir", files |-> files]
NotADirectory == [kind |-> "file", files |-> <<>>]
Missing == [kind |-> "missing", files |-> <<>>]

\* process_pdf called on its own: main and process_directory are not
\* running.
NoMain ==
  /\ input_dir = Directory(<<>>)
  /\ arg_method = "clean"
  /\ pdf_files = <<>>
  /\ idx = 1
  /\ output_dir = FALSE
  /\ successful = 0
  /\ failed = 0
  /\ calls = <<>>
  /\ results = <<>>
  /\ summary = FALSE
  /\ exit_code = -1
  /\ mpc = "none"

Init ==
  /\ src \in Inputs
  /\ dest = NoFile
  /\ run = 1
  /\ start = "clean"
  /\ method = "clean"
  /\ ifIdx = 1
  /\ pc = "idle"
  /\ cur = "none"
  /\ doc = <<>>
  /\ target = NoSpan
  /\ plan = <<>>
  /\ opIdx = 1
  /\ attempts = <<>>
  /\ outcomes = <<>>
  /\ ret = FALSE
  /\ raised = FALSE
  /\ writers = {}
  /\ faulted = FALSE
  /\ opened = FALSE
  /\ unclosed = FALSE
  /\ NoMain

\* process_pdf(input_path, output_path, m) is called; on the output of an
\* earlier run, with the default method.
Call(m) ==
  /\ pc = "idle"
  /\ run = 1 \/ m = "clean"
  /\ pc' = "dispatch"
  /\ start' = m
  /\ method' = m
  /\ ifIdx' = 1
  /\ UNCHANGED <<opened, unclosed>>
  /\ UNCHANGED dirVars
  /\ UNCHANGED <<src, dest, run, cur, doc, target, plan, opIdx, attempts,
                 outcomes, ret, raised, writers, faulted>>

\* `if method == IfChain[ifIdx]` holds: the strategy is called.
IfTaken ==
  /\ pc = "dispatch"
  /\ ifIdx <= Len(IfChain)
  /\ method = IfChain[ifIdx]
  /\ cur' = method
  /\ attempts' = Append(attempts, method)
  /\ pc' = "open"
  /\ UNCHANGED <<opened, unclosed>>
  /\ UNCHANGED dirVars
  /\ UNCHANGED <<src, dest, run, start, method, ifIdx, doc, target, plan,
                 opIdx, outcomes, ret, raised, writers, faulted>>

\* `if method == IfChain[ifIdx]` does not hold.
IfSkipped ==
  /\ pc = "dispatch"
  /\ ifIdx <= Len(IfChain)
  /\ method # IfChain[ifIdx]
  /\ ifIdx' = ifIdx + 1
  /\ UNCHANGED <<opened, unclosed>>
  /\ UNCHANGED dirVars
  /\ UNCHANGED <<src, dest, run, start, method, pc, cur, doc, target, plan,
                 opIdx, attempts, outcomes, ret, raised, writers, faulted>>

\* ReturnFalse with a final `else` that takes an unknown method for the
\* default: the chain is entered again at clean.
ReturnFalse_DefaultsToClean ==
  /\ pc = "dispatch"
  /\ ifIdx > Len(IfChain)
  /\ method \notin Methods
  /\ method' = "clean"
  /\ ifIdx' = 1
  /\ UNCHANGED <<opened, unclosed>>
  /\ UNCHANGED dirVars
  /\ UNCHANGED <<src, dest, run, start, pc, cur, doc, target, plan,
                 opIdx, attempts, outcomes, ret, raised, writers, faulted>>

\* The last line of process_pdf: return False.
ReturnFalse ==
  /\ pc = "dispatch"
  /\ ifIdx > Len(IfChain)
  /\ pc' = "done"
  /\ ret' = FALSE
  /\ UNCHANGED <<opened, unclosed>>
  /\ UNCHANGED dirVars
  /\ UNCHANGED <<src, dest, run, start, method, ifIdx, cur, doc, target, plan,
                 opIdx, attempts, outcomes, raised, writers, faulted>>

\* Return with a failed strategy's False returned at once, no fallback.
Return_NoFallback(ok) ==
  /\ outcomes' = Append(outcomes, ok)
  /\ pc' = "done"
  /\ ret' = ok
  /\ doc' = <<>>
  /\ target' = NoSpan
  /\ plan' = <<>>
  /\ opIdx' = 1
  /\ UNCHANGED <<method, ifIdx, raised>>

\* The running strategy returns ok to process_pdf and its locals are gone:
\* simple's result is returned as it is; another strategy's True is
\* returned, its False moves `method` on and falls to the next `if`.
Return(ok) ==
  /\ outcomes' = Append(outcomes, ok)
  /\ doc' = <<>>
  /\ target' = NoSpan
  /\ plan' = <<>>
  /\ opIdx' = 1
  /\ IF cur = "simple" \/ ok
     THEN pc' = "done" /\ ret' = ok /\ UNCHANGED <<method, ifIdx>>
     ELSE /\ pc' = "dispatch"
          /\ method' = FallTo(cur)
          /\ ifIdx' = ifIdx + 1
          /\ UNCHANGED ret
  /\ UNCHANGED raised

\* A call of the running strategy raises: `except Exception` logs it and
\* the strategy returns False.  The handler does not call doc.close(): a
\* document that was open stays open, unless the interpreter finalises the
\* local `doc` when the strategy's frame is dropped.
Raise ==
  /\ faulted' = TRUE
  /\ opened' = FALSE
  /\ unclosed' \in (IF opened THEN {unclosed, TRUE} ELSE {unclosed})
  /\ IF Caught(pc)
     THEN Return(FALSE)
     ELSE /\ raised' = TRUE
          /\ pc' = "done"
          /\ UNCHANGED <<method, ifIdx, ret, outcomes, doc, target, plan, opIdx>>

\* ------------------------------------------------- the fitz strategies

\* doc = fitz.open(input_path).
Open ==
  /\ pc = "open"
  /\ cur \in FitzStrategies
  /\ doc' = Load(dest, src)
  /\ pc' = "find"
  /\ opened' = TRUE
  /\ UNCHANGED unclosed
  /\ UNCHANGED dirVars
  /\ UNCHANGED <<src, dest, run, start, method, ifIdx, cur, target, plan,
                 opIdx, attempts, outcomes, ret, raised, writers, faulted>>

\* page = doc[0]; the span loop; standard's page.search_for.  Nothing found:
\* doc.close() and return False.
Find ==
  /\ pc = "find"
  /\ LET page == doc[1]
         t == find_first_span(page, OLD_TEXT)
         pl == Plan(cur, page, t, OLD_TEXT, NEW_TEXT)
     IN  IF t = NoSpan \/ pl = <<>>
         THEN Return(FALSE) /\ opened' = FALSE
         ELSE /\ target' = t
              /\ plan' = pl
              /\ opIdx' = 1
              /\ pc' = "ops"
              /\ UNCHANGED <<method, ifIdx, ret, outcomes, raised, doc, opened>>
  /\ UNCHANGED <<unclosed, dirVars>>
  /\ UNCHANGED <<src, dest, run, start, cur, attempts, writers, faulted>>

\* The next call on the open document.
ApplyNext ==
  /\ pc = "ops"
  /\ doc' = ApplyOp(doc, plan[opIdx])
  /\ opIdx' = opIdx + 1
  /\ pc' = IF opIdx = Len(plan) THEN "save" ELSE "ops"
  /\ UNCHANGED <<opened, unclosed>>
  /\ UNCHANGED dirVars
  /\ UNCHANGED <<src, dest, run, start, method, ifIdx, cur, target, plan,
                 attempts, outcomes, ret, raised, writers, faulted>>

\* output_path.parent.mkdir(...); doc.save(output_path).
Save ==
  /\ pc = "save"
  /\ dest' = File(doc, TRUE)
  /\ writers' = writers \cup {cur}
  /\ pc' = "close"
  /\ UNCHANGED <<opened, unclosed>>
  /\ UNCHANGED dirVars
  /\ UNCHANGED <<src, run, start, method, ifIdx, cur, doc, target, plan,
                 opIdx, attempts, outcomes, ret, raised, faulted>>

\* doc.save raises after it began to write the file.
SaveRaisesPartial ==
  /\ pc = "save"
  /\ dest' = File(doc, FALSE)
  /\ writers' = writers \cup {cur}
  /\ Raise
  /\ UNCHANGED dirVars
  /\ UNCHANGED <<src, run, start, cur, attempts>>

\* doc.close(); return True.
Close ==
  /\ pc = "close"
  /\ Return(TRUE)
  /\ opened' = FALSE
  /\ UNCHANGED unclosed
  /\ UNCHANGED dirVars
  /\ UNCHANGED <<src, dest, run, start, cur, attempts, writers, faulted>>

\* --------------------------------------------------- process_pdf_simple

\* open(input_path, 'rb'); PdfReader; PdfWriter.
SimpleOpen ==
  /\ pc = "open"
  /\ cur = "simple"
  /\ doc' = Load(dest, src)
  /\ pc' = "pages"
  /\ UNCHANGED <<opened, unclosed>>
  /\ UNCHANGED dirVars
  /\ UNCHANGED <<src, dest, run, start, method, ifIdx, cur, target, plan,
                 opIdx, attempts, outcomes, ret, raised, writers, faulted>>

\* The loop over pdf_reader.pages.
SimpleLoop ==
  /\ pc = "pages"
  /\ doc' = SimplePages(doc)
  /\ pc' = "create"
  /\ UNCHANGED <<opened, unclosed>>
  /\ UNCHANGED dirVars
  /\ UNCHANGED <<src, dest, run, start, method, ifIdx, cur, target, plan,
                 opIdx, attempts, outcomes, ret, raised, writers, faulted>>

\* mkdir; open(output_path, 'wb') creates the file, or empties it.
SimpleCreate ==
  /\ pc = "create"
  /\ dest' = File(<<>>, FALSE)
  /\ writers' = writers \cup {cur}
  /\ pc' = "write"
  /\ UNCHANGED <<opened, unclosed>>
  /\ UNCHANGED dirVars
  /\ UNCHANGED <<src, run, start, method, ifIdx, cur, doc, target, plan,
                 opIdx, attempts, outcomes, ret, raised, faulted>>

\* pdf_writer.write(output_file); return True.
SimpleWrite ==
  /\ pc = "write"
  /\ dest' = File(doc, TRUE)
  /\ Return(TRUE)
  /\ UNCHANGED <<opened, unclosed>>
  /\ UNCHANGED dirVars
  /\ UNCHANGED <<src, run, start, cur, attempts, writers, faulted>>

\* Any statement of the running strategy raises (an unreadable source, a
\* font insert_text cannot resolve, insert_page given a page for its text, a
\* directory that cannot be made, a full disk): output_path stays as it is.
StepRaises ==
  /\ pc \in {"open", "find", "ops", "save", "close", "pages", "create", "write"}
  /\ Raise
  /\ UNCHANGED dirVars
  /\ UNCHANGED <<src, dest, run, start, cur, attempts, writers>>

\* ----------------------------------------------------------- a second run

\* The output of a run that succeeded is given to process_pdf again, with
\* a new output path.
Rerun ==
  /\ pc = "done"
  /\ ret
  /\ ~raised
  /\ run < MaxRuns
  /\ dest.complete
  /\ src' = dest.doc
  /\ dest' = NoFile
  /\ run' = run + 1
  /\ pc' = "idle"
  /\ cur' = "none"
  /\ doc' = <<>>
  /\ target' = NoSpan
  /\ plan' = <<>>
  /\ opIdx' = 1
  /\ attempts' = <<>>
  /\ outcomes' = <<>>
  /\ ret' = FALSE
  /\ writers' = {}
  /\ faulted' = FALSE
  /\ start' = "clean"
  /\ method' = "clean"
  /\ ifIdx' = 1
  /\ opened' = FALSE
  /\ unclosed' = FALSE
  /\ UNCHANGED dirVars
  /\ UNCHANGED raised

Next ==
  \/ \E m \in Methods \cup {"bogus"} : Call(m)
  \/ IfTaken
  \/ IfSkipped
  \/ ReturnFalse
  \/ Open
  \/ Find
  \/ ApplyNext
  \/ Save
  \/ SaveRaisesPartial
  \/ Close
  \/ SimpleOpen
  \/ SimpleLoop
  \/ SimpleCreate
  \/ SimpleWrite
  \/ StepRaises
  \/ Rerun

Spec == Init /\ [][Next]_vars

\* ------------------------------------------- main and process_directory

\* The documents found in the directories main is run on.
DirDocs == {<<TitleOnly>>, <<NoTarget>>}

\* What input_dir can be: nothing, a file, or a directory with up to
\* MaxFiles *.pdf files in glob's order.
DirInputs ==
  {Missing, NotADirectory}
    \cup {Directory(fs) : fs \in UNION {[1..n -> DirDocs] : n \in 0..MaxFiles}}

\* The program is started on the command line.
DirInit ==
  /\ input_dir \in DirInputs
  /\ arg_method = "clean"
  /\ pdf_files = <<>>
  /\ idx = 1
  /\ output_dir = FALSE
  /\ successful = 0
  /\ failed = 0
  /\ calls = <<>>
  /\ results = <<>>
  /\ summary = FALSE
  /\ exit_code = -1
  /\ mpc = "main"
  /\ src = <<>>
  /\ dest = NoFile
  /\ run = 1
  /\ start = "clean"
  /\ method = "clean"
  /\ ifIdx = 1
  /\ pc = "idle"
  /\ cur = "none"
  /\ doc = <<>>
  /\ target = NoSpan
  /\ plan = <<>>
  /\ opIdx = 1
  /\ attempts = <<>>
  /\ outcomes = <<>>
  /\ ret = FALSE
  /\ raised = FALSE
  /\ writers = {}
  /\ faulted = FALSE
  /\ opened = FALSE
  /\ unclosed = FALSE

pdfVars == <<src, dest, run, start, method, ifIdx, pc, cur, doc, target, plan,
             opIdx, attempts, outcomes, ret, raised, writers, faulted, opened,
             unclosed>>

\* main: --simple / --method (argparse admits the seven names only) give
\* the method; process_directory is called.
Main(simple, m) ==
  /\ mpc = "main"
  /\ arg_method' = IF simple THEN "simple" ELSE m
  /\ mpc' = "find"
  /\ UNCHANGED <<input_dir, pdf_files, idx, output_dir, successful, failed,
                 calls, results, summary, exit_code>>
  /\ UNCHANGED pdfVars

\* FindRaises with process_directory catching the error and returning: main
\* ends as after a run that went well.
FindRaises_Swallowed ==
  /\ mpc = "find"
  /\ input_dir.kind # "dir"
  /\ mpc' = "exit"
  /\ exit_code' = 0
  /\ UNCHANGED <<input_dir, arg_method, pdf_files, idx, output_dir, successful,
                 failed, calls, results, summary>>
  /\ UNCHANGED pdfVars

\* find_pdf_files raises FileNotFoundError or NotADirectoryError; it goes
\* through process_directory to main's `except Exception`: sys.exit(1).
FindRaises ==
  /\ mpc = "find"
  /\ input_dir.kind # "dir"
  /\ mpc' = "exit"
  /\ exit_code' = 1
  /\ UNCHANGED <<input_dir, arg_method, pdf_files, idx, output_dir, successful,
                 failed, calls, results, summary>>
  /\ UNCHANGED pdfVars

\* pdf_files = find_pdf_files(input_dir); with no file, process_directory
\* warns and returns, and main ends.
FindPdfFiles ==
  /\ mpc = "find"
  /\ input_dir.kind = "dir"
  /\ pdf_files' = input_dir.files
  /\ IF input_dir.files = <<>>
     THEN mpc' = "exit" /\ exit_code' = 0
     ELSE mpc' = "mkdir" /\ UNCHANGED exit_code
  /\ UNCHANGED <<input_dir, arg_method, idx, output_dir, successful, failed,
                 calls, results, summary>>
  /\ UNCHANGED pdfVars

\* output_dir.mkdir(parents=True, exist_ok=True); successful = 0; failed = 0.
Mkdir ==
  /\ mpc = "mkdir"
  /\ output_dir' = TRUE
  /\ successful' = 0
  /\ failed' = 0
  /\ mpc' = "loop"
  /\ UNCHANGED <<input_dir, arg_method, pdf_files, idx, calls, results,
                 summary, exit_code>>
  /\ UNCHANGED pdfVars

\* output_dir.mkdir raises: main's `except Exception`, sys.exit(1).
MkdirRaises ==
  /\ mpc = "mkdir"
  /\ mpc' = "exit"
  /\ exit_code' = 1
  /\ UNCHANGED <<input_dir, arg_method, pdf_files, idx, output_dir, successful,
                 failed, calls, results, summary>>
  /\ UNCHANGED pdfVars

\* for pdf_file in pdf_files: process_pdf(pdf_file, output_file, method)
\* is called.
LoopCall ==
  /\ mpc = "loop"
  /\ pc = "idle"
  /\ idx <= Len(pdf_files)
  /\ calls' = Append(calls, idx)
  /\ src' = pdf_files[idx]
  /\ dest' = NoFile
  /\ start' = arg_method
  /\ method' = arg_method
  /\ ifIdx' = 1
  /\ pc' = "dispatch"
  /\ UNCHANGED <<input_dir, arg_method, pdf_files, idx, output_dir, successful,
                 failed, results, summary, exit_code, mpc>>
  /\ UNCHANGED <<run, cur, doc, target, plan, opIdx, attempts, outcomes, ret,
                 raised, writers, faulted, opened, unclosed>>

\* LoopCount with a failed file ending the run: the loop is left at the
\* first False.
LoopCount_StopOnFailure ==
  /\ mpc = "loop"
  /\ pc = "done"
  /\ IF raised \/ ~ret
     THEN /\ mpc' = "exit"
          /\ exit_code' = 1
          /\ UNCHANGED <<successful, failed, results, idx>>
     ELSE /\ successful' = successful + 1
          /\ results' = Append(results, ret)
          /\ idx' = idx + 1
          /\ UNCHANGED <<failed, mpc, exit_code>>
  /\ pc' = "idle"
  /\ cur' = "none"
  /\ attempts' = <<>>
  /\ outcomes' = <<>>
  /\ ret' = FALSE
  /\ writers' = {}
  /\ faulted' = FALSE
  /\ UNCHANGED <<input_dir, arg_method, pdf_files, output_dir, calls, summary>>
  /\ UNCHANGED <<src, dest, run, start, method, ifIdx, doc, target, plan,
                 opIdx, raised, opened, unclosed>>

\* process_pdf is back: `successful += 1` or `failed += 1`, and the loop
\* goes to the next file.  An exception out of process_pdf would leave the
\* loop for main's `except Exception`.
LoopCount ==
  /\ mpc = "loop"
  /\ pc = "done"
  /\ IF raised
     THEN /\ mpc' = "exit"
          /\ exit_code' = 1
          /\ UNCHANGED <<successful, failed, results, idx>>
     ELSE /\ successful' = IF ret THEN successful + 1 ELSE successful
          /\ failed' = IF ret THEN failed ELSE failed + 1
          /\ results' = Append(results, ret)
          /\ idx' = idx + 1
          /\ UNCHANGED <<mpc, exit_code>>
  /\ pc' = "idle"
  /\ cur' = "none"
  /\ attempts' = <<>>
  /\ outcomes' = <<>>
  /\ ret' = FALSE
  /\ writers' = {}
  /\ faulted' = FALSE
  /\ UNCHANGED <<input_dir, arg_method, pdf_files, output_dir, calls, summary>>
  /\ UNCHANGED <<src, dest, run, start, method, ifIdx, doc, target, plan,
                 opIdx, raised, opened, unclosed>>

\* The loop is over: "Processing complete: {successful} successful,
\* {failed} failed" is logged, process_directory returns and main ends.
Summary ==
  /\ mpc = "loop"
  /\ pc = "idle"
  /\ idx > Len(pdf_files)
  /\ summary' = TRUE
  /\ mpc' = "exit"
  /\ exit_code' = 0
  /\ UNCHANGED <<input_dir, arg_method, pdf_files, idx, output_dir, successful,
                 failed, calls, results>>
  /\ UNCHANGED pdfVars

\* The program run from the command line: main, process_directory and,
\* for each file, process_pdf with its strategies.  (process_pdf's last
\* `return False` needs a method name argparse does not let through.)
DirNext ==
  \/ \E simple \in BOOLEAN, m \in Methods : Main(simple, m)
  \/ FindRaises
  \/ FindPdfFiles
  \/ Mkdir
  \/ MkdirRaises
  \/ LoopCall
  \/ LoopCount
  \/ Summary
  \/ IfTaken
  \/ IfSkipped
  \/ Open
  \/ Find
  \/ ApplyNext
  \/ Save
  \/ SaveRaisesPartial
  \/ Close
  \/ SimpleOpen
  \/ SimpleLoop
  \/ SimpleCreate
  \/ SimpleWrite
  \/ StepRaises

DirSpec == DirInit /\ [][DirNext]_vars

\* ================================================================ claims

\* The fixed order of the strategies and a strategy's place in it.
DefaultOrder ==
  <<"clean", "minimal", "direct", "overlay", "precise", "standard", "simple">>
Pos(m) == CHOOSE i \in 1..Len(DefaultOrder) : DefaultOrder[i] = m

\* Some span of the page holds the text.
HasSpanWith(page, text) ==
  \E i \in 1..Len(Spans(page)) : Contains(Spans(page)[i].text, text)

\* a is the beginning of b.
IsPrefix(a, b) == Len(a) <= Len(b) /\ SubSeq(b, 1, Len(a)) = a

\* C1: started with the default method 'clean', process_pdf attempts the
\* strategies in the order clean, minimal, direct, overlay, precise,
\* standard, simple: the i-th attempt is the i-th strategy of the order, it
\* is made only after every earlier attempt returned False, and nothing is
\* attempted after an attempt that returned True.
C1_DefaultOrder ==
  (start = "clean" /\ pc # "idle") =>
    /\ Len(attempts) <= Len(DefaultOrder)
    /\ \A i \in 1..Len(attempts) : attempts[i] = DefaultOrder[i]
    /\ Len(outcomes) \in {Len(attempts) - 1, Len(attempts)}
    /\ \A i \in 1..Len(outcomes) :
         /\ i < Len(attempts) => ~outcomes[i]
         /\ outcomes[i] => (i = Len(attempts) /\ pc = "done")

\* C1 witness: clean and minimal were made to fail on a page that holds the
\* old text, and direct is the third strategy attempted.
C1_Witness ==
  /\ start = "clean"
  /\ attempts = <<"clean", "minimal", "direct">>
  /\ outcomes = <<FALSE, FALSE>>
  /\ HasSpanWith(src[1], OLD_TEXT)
  /\ pc = "find"

\* C2 (as claimed): a single non-simple strategy chosen by the caller that
\* fails is the only one attempted, and process_pdf returns False.
C2_SingleStrategyOnly ==
  (start \in FitzStrategies /\ outcomes # <<>> /\ ~outcomes[1]) =>
    /\ attempts = <<start>>
    /\ pc = "done"
    /\ ~ret

\* C2 (amended): called with a non-simple method m, process_pdf attempts m
\* and, each time the attempted strategy fails, the strategy after it in
\* the fixed order, simple included; it returns False only after every
\* strategy from m to simple was attempted and failed.
C2_FallsThrough ==
  (start \in FitzStrategies /\ pc # "idle") =>
    /\ \A i \in 1..Len(attempts) :
         /\ Pos(start) + i - 1 <= Len(DefaultOrder)
         /\ attempts[i] = DefaultOrder[Pos(start) + i - 1]
    /\ (outcomes # <<>> /\ ~outcomes[1] /\ pc \notin {"dispatch"}) =>
         (Len(attempts) >= 2 /\ attempts[2] = DefaultOrder[Pos(start) + 1])
    /\ (pc = "done" /\ ~ret) =>
         /\ Len(attempts) = Len(DefaultOrder) - Pos(start) + 1
         /\ attempts[Len(attempts)] = "simple"
         /\ \A i \in 1..Len(outcomes) : ~outcomes[i]

\* C2 witness: called with 'standard', standard failed and simple, the
\* strategy after it, produced the result.
C2_Witness ==
  /\ start = "standard"
  /\ attempts = <<"standard", "simple">>
  /\ outcomes = <<FALSE, TRUE>>
  /\ pc = "done"
  /\ ret

OldTextOnALine(page) ==
  LET sp == Spans(page)
  IN  \E i \in 1..Len(sp) :
        \/ Contains(sp[i].text, OLD_TEXT)
        \/ /\ i < Len(sp)
           /\ sp[i].bbox[4] = sp[i + 1].bbox[4]
           /\ Contains(sp[i].text \o sp[i + 1].text, OLD_TEXT)

C4_NoOutputOnFailure ==
  /\ \A i \in 1..Len(outcomes) : ~outcomes[i] => attempts[i] \notin writers
  /\ (pc = "done" /\ ~ret) => dest = NoFile

\* What strategy s makes of the document d, all of its calls applied.
ResultOf(s, d) ==
  IF s = "simple" THEN SimplePages(d)
  ELSE LET pl == Plan(s, d[1], find_first_span(d[1], OLD_TEXT), OLD_TEXT, NEW_TEXT)
       IN  ApplyOps(d, pl, Len(pl))

\* C5: every attempt starts from the document as input_path holds it, and
\* what output_path holds is that document with the calls of one strategy
\* applied: on return True, those of the strategy that succeeded.
C5_FreshLoadOneStrategy ==
  /\ pc \in {"find", "pages"} => doc = src
  /\ (dest.exists /\ dest.doc # <<>>) =>
       \E s \in writers : dest.doc = ResultOf(s, src)
  /\ (pc = "done" /\ ret) =>
       /\ dest.complete
       /\ dest.doc = ResultOf(attempts[Len(attempts)], src)

\* C5 witness: clean found the old text and failed on the way, minimal then
\* succeeded, and the output is the input with minimal's calls alone.
C5_Witness ==
  /\ pc = "done"
  /\ ret
  /\ attempts = <<"clean", "minimal">>
  /\ HasSpanWith(src[1], OLD_TEXT)
  /\ dest.doc = ResultOf("minimal", src)
  /\ dest.doc # ResultOf("clean", src)

\* C6: no exception leaves process_pdf; every strategy that was called has
\* returned a result when process_pdf looks at the next `if` or returns; and
\* after a failed strategy, whether it raised or did not find the text,
\* `method` names the strategy after it in the order.
C6_ExceptionsAbsorbed ==
  /\ ~raised
  /\ pc \in {"dispatch", "done"} => Len(outcomes) = Len(attempts)
  /\ (pc = "dispatch" /\ outcomes # <<>>) =>
       /\ ~outcomes[Len(outcomes)]
       /\ Pos(attempts[Len(attempts)]) < Len(DefaultOrder)
       /\ method = DefaultOrder[Pos(attempts[Len(attempts)]) + 1]
  /\ (pc = "done" /\ attempts # <<>>) => ret = outcomes[Len(outcomes)]

\* C6 witness: overlay found the old text, then raised while closing the
\* document; it returned False and process_pdf goes on to precise.
C6_Witness ==
  /\ faulted
  /\ run = 1
  /\ attempts = <<"overlay">>
  /\ outcomes = <<FALSE>>
  /\ writers = {"overlay"}
  /\ dest.complete
  /\ pc = "dispatch"
  /\ method = "precise"

\* C7 (as claimed, for runs in which no call raises): when page 0 holds
\* "KYC Report" in a span and clean is the strategy run, either clean
\* returns False and output_path holds nothing, or the output's page 0, read
\* again, has no span with "KYC Report" and has one with "PD Report".
C7_CleanRemovesOldText ==
  (~faulted /\ start = "clean" /\ attempts = <<"clean">> /\ outcomes # <<>>
     /\ HasSpanWith(src[1], OLD_TEXT)) =>
    IF outcomes[1]
    THEN /\ dest.complete
         /\ ~HasSpanWith(dest.doc[1], OLD_TEXT)
         /\ HasSpanWith(dest.doc[1], NEW_TEXT)
    ELSE dest = NoFile

\* C8 (as claimed): in a default-order run on the output of an earlier run
\* that succeeded, no non-simple strategy finds the old text and none
\* writes the output.
C8_SecondRunFindsNothing ==
  (run >= 2 /\ start = "clean" /\ pc # "idle") =>
    /\ target = NoSpan
    /\ writers \subseteq {"simple"}

\* C9 (as claimed): the output of a strategy that succeeded has as many
\* pages as the input, and its pages after page 0 are the input's, in order.
C9_PagesKept ==
  (pc = "done" /\ ret) =>
    /\ dest.complete
    /\ Len(dest.doc) = Len(src)
    /\ \A i \in 2..Len(src) : dest.doc[i] = src[i]

\* C10: in a default-order run in which no call raises, on an input whose
\* page 0 has no span with "KYC Report": the strategies are attempted in
\* the order, none of the six non-simple ones finds a target or writes the
\* output, each returns False, and process_pdf returns True after simple,
\* the seventh, wrote an output with the input's number of pages, every
\* page after page 0 the input's, and page 0 holding all the input's page 0
\* holds.
C10_NotFoundEndsInSimple ==
  (start = "clean" /\ pc # "idle" /\ ~faulted /\ ~HasSpanWith(src[1], OLD_TEXT)) =>
    /\ \A i \in 1..Len(attempts) : attempts[i] = DefaultOrder[i]
    /\ target = NoSpan
    /\ writers \subseteq {"simple"}
    /\ \A i \in 1..Len(outcomes) : attempts[i] # "simple" => ~outcomes[i]
    /\ pc = "done" =>
         /\ ret
         /\ Len(attempts) = Len(DefaultOrder)
         /\ writers = {"simple"}
         /\ dest.complete
         /\ Len(dest.doc) = Len(src)
         /\ IsPrefix(src[1].items, dest.doc[1].items)
         /\ \A i \in 2..Len(src) : dest.doc[i] = src[i]

\* C10 witness: a two-page input without the old text went through all
\* seven strategies and simple wrote it out as it was.
C10_Witness ==
  /\ start = "clean"
  /\ ~faulted
  /\ run = 1
  /\ src[1] = NoTarget
  /\ Len(src) = 2
  /\ attempts = DefaultOrder
  /\ outcomes = <<FALSE, FALSE, FALSE, FALSE, FALSE, FALSE, TRUE>>
  /\ pc = "done"
  /\ ret
  /\ dest = File(src, TRUE)

\* C11 (as claimed, for runs in which no call raises): when the first span
\* of page 0 that holds the old text holds more text around it and clean
\* succeeds, the output's page 0 has a span whose text is that span's full
\* text with the old text replaced by the new, in the span's size and in the
\* accent colour, starting at the span's x0.
C11_CleanRedrawsFullSpan ==
  LET t == find_first_span(src[1], OLD_TEXT)
  IN  (~faulted /\ attempts = <<"clean">> /\ outcomes = <<TRUE>>
         /\ t # NoSpan /\ t.text # OLD_TEXT) =>
        /\ dest.complete
        /\ \E i \in 1..Len(Spans(dest.doc[1])) :
             LET s == Spans(dest.doc[1])[i]
             IN  /\ s.text = Replace(t.text, OLD_TEXT, NEW_TEXT)
                 /\ s.size = t.size
                 /\ s.color = hex_to_rgb(ACCENT)
                 /\ s.bbox[1] = t.bbox[1]

\* C12: when input_dir does not exist or is not a directory, the run never
\* gets past find_pdf_files: process_pdf is called for no file, no strategy
\* is attempted, nothing is written, the output directory is not made, no
\* tally is logged, and the program ends with exit status 1.
C12_InvalidDirectoryIsFatal ==
  input_dir.kind # "dir" =>
    /\ mpc \in {"main", "find", "exit"}
    /\ calls = <<>>
    /\ results = <<>>
    /\ pc = "idle"
    /\ attempts = <<>>
    /\ dest = NoFile
    /\ ~output_dir
    /\ ~summary
    /\ mpc = "exit" => exit_code = 1

\* C12 witness: main was run on a path that is a file, and has ended with
\* status 1.
C12_Witness ==
  /\ input_dir = NotADirectory
  /\ arg_method = "direct"
  /\ mpc = "exit"
  /\ exit_code = 1
  /\ calls = <<>>

\* C13: over a directory with K *.pdf files, process_pdf is called once for
\* each file, in the list's order, the next call only after the one before
\* has returned; a file whose process_pdf returned False is counted in
\* `failed` and the loop goes on; successful + failed is always the number
\* of files handled so far, successful the number of True returns; and the
\* run ends, with the tally logged, only when all K files were handled.
C13_TallyCountsEveryFile ==
  input_dir.kind = "dir" =>
    /\ Len(calls) <= Len(input_dir.files)
    /\ \A i \in 1..Len(calls) : calls[i] = i
    /\ Len(calls) = Len(results) + (IF pc = "idle" THEN 0 ELSE 1)
    /\ successful + failed = Len(results)
    /\ successful = Cardinality({i \in 1..Len(results) : results[i]})
    /\ failed = Cardinality({i \in 1..Len(results) : ~results[i]})
    /\ idx = Len(results) + 1
    /\ (mpc = "exit" /\ output_dir) =>
         /\ summary
         /\ exit_code = 0
         /\ Len(results) = Len(input_dir.files)
         /\ successful + failed = Len(input_dir.files)
    /\ summary => (mpc = "exit" /\ output_dir)

\* C13 witness: of two files the first failed in every strategy and the
\* second was processed; the tally is one successful, one failed.
C13_Witness ==
  /\ Len(input_dir.files) = 2
  /\ calls = <<1, 2>>
  /\ results = <<FALSE, TRUE>>
  /\ successful = 1
  /\ failed = 1
  /\ summary
  /\ mpc = "exit"

\* C14 (as claimed): a fitz strategy that has returned, with True, with
\* False for text not found, or with False after an exception, has closed
\* the document it opened: no document is open when process_pdf looks at
\* the next `if` or has returned, and a strategy never opens a document
\* while another is still open.
C14_DocumentClosedOnReturn ==
  /\ pc \in {"idle", "dispatch", "done"} => (~opened /\ ~unclosed)
  /\ ~(opened /\ unclosed)

\* C15: standard returns False, having called nothing on the page and
\* written nothing, when no span of page 0 holds the old text or search_for
\* gives no rectangle; with k >= 1 rectangles it makes 2k calls on page 0,
\* for the i-th rectangle in search order a redaction of it and then an
\* insert_text of the new text at (x0, y1 - 2) in the font and size of the
\* first span that holds the old text, and what it saves is the input with
\* exactly those calls made.
C15_StandardPerOccurrence ==
  LET page == src[1]
      t == find_first_span(page, OLD_TEXT)
      rects == search_for(page, OLD_TEXT)
      k == Len(rects)
  IN  cur = "standard" =>
        IF t = NoSpan \/ k = 0
        THEN /\ pc \notin {"ops", "save", "close"}
             /\ "standard" \notin writers
             /\ Len(outcomes) = Len(attempts) => ~outcomes[Len(outcomes)]
        ELSE /\ pc \in {"ops", "save", "close"} =>
               /\ Len(plan) = 2 * k
               /\ \A i \in 1..k :
                    /\ plan[2 * i - 1].op = "redact"
                    /\ plan[2 * i - 1].rect = rects[i]
                    /\ plan[2 * i].op = "insert_text"
                    /\ plan[2 * i].pg = "first"
                    /\ plan[2 * i].point = <<rects[i][1], rects[i][4] - 2>>
                    /\ plan[2 * i].text = NEW_TEXT
                    /\ plan[2 * i].font = t.font
                    /\ plan[2 * i].size = t.size
               /\ doc = ApplyOps(src, plan, opIdx - 1)
               /\ pc \in {"save", "close"} => opIdx = 2 * k + 1
               /\ pc = "close" => dest = File(doc, TRUE)
             /\ "standard" \in writers => pc \in {"save", "close", "dispatch", "done"}

\* C15 witness: standard ran on a page with the old text in two spans of
\* different fonts, made its four calls and saved; the second insertion
\* is in the first span's font.
C15_Witness ==
  /\ cur = "standard"
  /\ pc = "close"
  /\ src[1] = TwoSpans
  /\ Len(plan) = 4
  /\ plan[4].font = "Helvetica-Bold"
  /\ plan[4].point = <<90, 73>>
  /\ dest.doc = ApplyOps(src, plan, 4)

\* The calls clean, minimal and overlay make for the target span t: one
\* erase, then one insert_text of the new text in t's font and size.
SingleSpanCalls(s, t) ==
  /\ Len(plan) = 2
  /\ plan[1].pg = "first"
  /\ plan[1].op = (IF s = "clean" THEN "draw_rect" ELSE "redact")
  /\ plan[1].rect = Expand(t.bbox, CASE s = "clean" -> 3
                                      [] s = "minimal" -> 2
                                      [] OTHER -> 0)
  /\ plan[2].op = "insert_text"
  /\ plan[2].pg = "first"
  /\ plan[2].point = <<t.bbox[1], t.bbox[4] - (IF s = "clean" THEN 5 ELSE 2)>>
  /\ plan[2].text = NEW_TEXT
  /\ plan[2].font = t.font
  /\ plan[2].size = t.size

\* C16 (as claimed): clean, minimal and overlay take the first span of page
\* 0 that holds the old text and make one erase and one insert on page 0
\* (clean a painted rectangle over the bbox grown by 3, nothing removed,
\* insert at (x0, y1 - 5); minimal a redaction of the bbox grown by 2,
\* insert at (x0, y1 - 2); overlay a redaction of the bbox, insert at
\* (x0, y1 - 2)); and once both are made, every later span that holds the
\* old text is on the page as it was.
C16_FirstSpanOnly ==
  LET sp == Spans(src[1])
      t == find_first_span(src[1], OLD_TEXT)
  IN  (cur \in {"clean", "minimal", "overlay"} /\ pc \in {"ops", "save", "close"}) =>
        /\ target = t
        /\ SingleSpanCalls(cur, t)
        /\ doc = ApplyOps(src, plan, opIdx - 1)
        /\ cur = "clean" => IsPrefix(src[1].items, doc[1].items)
        /\ pc \in {"save", "close"} =>
             \A i \in 1..Len(sp) :
               (sp[i] # t /\ Contains(sp[i].text, OLD_TEXT)) =>
                 \E j \in 1..Len(doc[1].items) : doc[1].items[j] = sp[i]

\* The colour a colour value stands for: an sRGB integer taken apart, a
\* tuple as it is.
Rgb(color) ==
  IF color.k = "tuple" THEN color.v
  ELSE <<color.v[1] \div 65536, (color.v[1] \div 256) % 256, color.v[1] % 256>>

\* The spans of a page, each with every occurrence of the old text in it
\* replaced by the new; and those of them that direct and precise write to
\* the new page, which are the ones whose text is not all blank.
Substituted(page) ==
  LET sub(sp) == [sp EXCEPT !.text = IF Contains(sp.text, OLD_TEXT)
                                     THEN Replace(sp.text, OLD_TEXT, NEW_TEXT)
                                     ELSE sp.text]
  IN  [i \in 1..Len(Spans(page)) |-> sub(Spans(page)[i])]
Emitted(page) == SelectSeq(Substituted(page), LAMBDA sp : NonBlank(sp.text))

\* C17 (as claimed): in the calls direct and precise make, a span whose
\* text after the substitution holds the new text is written in the accent
\* colour; any other span is written in its own colour when that is a tuple
\* of 3 or 4 components or a number, and in black otherwise.
C17_OriginalColourKept ==
  (cur \in {"direct", "precise"} /\ pc \in {"ops", "save", "close"}) =>
    LET em == Emitted(src[1])
    IN  /\ Len(plan) = Len(em) + 3
        /\ \A i \in 1..Len(em) :
             Rgb(plan[i + 1].color) =
               IF Contains(em[i].text, NEW_TEXT) THEN Rgb(hex_to_rgb(ACCENT))
               ELSE IF em[i].color.k \in {"int", "float"}
                       \/ (em[i].color.k = "tuple" /\ Len(em[i].color.v) \in {3, 4})
                    THEN Rgb(em[i].color)
                    ELSE <<0, 0, 0>>

\* The plan is: new_page, then one insert_text on the new page for each
\* span of em, in em's order, with the span's text, at (x0, y1 - 2), in the
\* span's font and size, then delete_page(0) and insert_page(0, ...).
Reemits(em) ==
  /\ Len(plan) = Len(em) + 3
  /\ plan[1].op = "new_page"
  /\ \A i \in 1..Len(em) :
       /\ plan[i + 1].op = "insert_text"
       /\ plan[i + 1].pg = "new"
       /\ plan[i + 1].text = em[i].text
       /\ plan[i + 1].point = <<em[i].bbox[1], em[i].bbox[4] - 2>>
       /\ plan[i + 1].font = em[i].font
       /\ plan[i + 1].size = em[i].size
  /\ plan[Len(em) + 2].op = "delete_page"
  /\ plan[Len(em) + 3].op = "insert_page"

\* C18 (as claimed): when direct or precise has found the old text, every
\* span of page 0 is written to the new page once, in document order, at
\* (x0, y1 - 2) in its font and size, with every occurrence of the old text
\* replaced and any other text as it was; no span is left out.
C18_EverySpanReemitted ==
  (cur \in {"direct", "precise"} /\ pc \in {"ops", "save", "close"}) =>
    Reemits(Substituted(src[1]))

\* C18 (amended): when direct or precise has found the old text, every
\* span of page 0 whose text is not all blank is written to the new page
\* once, in document order, at (x0, y1 - 2) in its font and size, with
\* every occurrence of the old text replaced and any other text as it was;
\* a span of blanks only is not written; and the calls are made in that
\* order on the document as it was opened.
C18_NonBlankSpansReemitted ==
  (cur \in {"direct", "precise"} /\ pc \in {"ops", "save", "close"}) =>
    /\ Reemits(Emitted(src[1]))
    /\ doc = ApplyOps(src, plan, opIdx - 1)

\* C18 witness: direct has written the spans of a page made of a span of
\* blanks, a span with the old text twice and a third span: two
\* insert_text calls, the first with both occurrences replaced.
C18_Witness ==
  /\ cur = "direct"
  /\ pc = "save"
  /\ src[1] = TwiceInSpan
  /\ Len(plan) = 5
  /\ plan[2].text = <<"PD", "Report", "PD", "Report">>
  /\ plan[3].text = <<"note">>
  /\ Len(doc[2].items) = 2

\* C19: precise does what direct does.  On every document either of them
\* opens, the two make the same calls and give the same document; a
\* running precise that found the old text holds direct's calls, has made
\* them in order on the document as opened, and what it saved is what
\* direct would have saved; and neither of them gets past its search,
\* writes or returns True unless page 0 has a span with the old text, so
\* precise never succeeds where direct reported the text not found.
C19_PreciseIsDirect ==
  /\ (cur \in {"direct", "precise"} /\ pc = "find") =>
       /\ PrecisePlan(src[1], OLD_TEXT, NEW_TEXT) = DirectPlan(src[1], OLD_TEXT, NEW_TEXT)
       /\ ResultOf("precise", src) = ResultOf("direct", src)
  /\ (cur = "precise" /\ pc \in {"ops", "save", "close"}) =>
       /\ plan = DirectPlan(src[1], OLD_TEXT, NEW_TEXT)
       /\ doc = ApplyOps(src, plan, opIdx - 1)
       /\ pc = "close" => dest = File(ResultOf("direct", src), TRUE)
  /\ (\/ cur \in {"direct", "precise"} /\ pc \in {"ops", "save", "close"}
      \/ writers \cap {"direct", "precise"} # {}
      \/ \E i \in 1..Len(outcomes) :
           attempts[i] \in {"direct", "precise"} /\ outcomes[i]) =>
       HasSpanWith(src[1], OLD_TEXT)

\* C19 witness: direct found the old text and failed on the way, overlay
\* failed too, and precise has now saved the document direct would have
\* saved.
C19_Witness ==
  /\ attempts = <<"direct", "overlay", "precise">>
  /\ outcomes = <<FALSE, FALSE>>
  /\ cur = "precise"
  /\ pc = "close"
  /\ Len(src) = 2
  /\ dest.doc = ResultOf("direct", src)
  /\ dest.doc # src

\* C20: whatever method name m process_pdf is called with: if m is one of
\* the seven, the strategies attempted are, in order and each once, the
\* strategies from m onward in the fixed order, as far as the first that
\* returns True or to simple, so none before m and at most seven; each is
\* attempted only after the one before returned False; and process_pdf
\* returns what the last attempted strategy returned.  If m is no strategy's
\* name, process_pdf returns False, no strategy is attempted, no document is
\* opened and nothing is written.
C20_ChainFromStart ==
  pc # "idle" =>
    IF start \in Methods
    THEN /\ Len(attempts) <= Len(DefaultOrder) - Pos(start) + 1
         /\ \A i \in 1..Len(attempts) : attempts[i] = DefaultOrder[Pos(start) + i - 1]
         /\ \A i, j \in 1..Len(attempts) : attempts[i] = attempts[j] => i = j
         /\ Len(outcomes) \in {Len(attempts) - 1, Len(attempts)}
         /\ \A i \in 1..Len(outcomes) : i < Len(attempts) => ~outcomes[i]
         /\ pc = "done" =>
              /\ attempts # <<>>
              /\ Len(outcomes) = Len(attempts)
              /\ ret = outcomes[Len(outcomes)]
              /\ ~ret => attempts[Len(attempts)] = "simple"
    ELSE /\ attempts = <<>>
         /\ outcomes = <<>>
         /\ cur = "none"
         /\ ~opened
         /\ writers = {}
         /\ dest = NoFile
         /\ pc \in {"dispatch", "done"}
         /\ pc = "done" => ~ret

\* C20 witness: called with 'overlay', process_pdf attempted overlay,
\* precise and standard, nothing before overlay, and returned the True of
\* standard.
C20_Witness ==
  /\ start = "overlay"
  /\ attempts = <<"overlay", "precise", "standard">>
  /\ outcomes = <<FALSE, FALSE, TRUE>>
  /\ pc = "done"
  /\ ret

====
